---- MODULE Spec2Model ----
(***************************************************************************)
(* A model of erinyes' MemoryLeakAssistant                                 *)
(* (src/erinyes/stress/memory_leak_assistant.py): the bounded-usage        *)
(* assertion, the in-process repeated-call check and the isolated check    *)
(* that runs in a child process and reports through a queue.               *)
(*                                                                         *)
(* Memory is observed only through _memory_usage(process); every call of   *)
(* it is a read of the environment, so each sample is drawn from           *)
(* 1..MaxMem.  A slack is the fraction slack/SlackDen; over the usages and *)
(* slacks drawn here the double arithmetic of usage * (1 + slack) is       *)
(* exact, so the comparison with current_usage is made over integers.  The *)
(* excess of a failure message is a quotient that is not exact in general: *)
(* it is computed as the code computes it, in IEEE 754 doubles.            *)
(***************************************************************************)
EXTENDS Integers, Sequences, FiniteSets, TLC

\* ---------------------------------------------------------------- bounds
MaxMem == 4
MaxSlack == 2
SlackDen == 4
MaxIter == 3
MaxPuts == 2

Samples == 1..MaxMem
Usages == 0..MaxMem
Slacks == 0..MaxSlack
Iterations == 0..MaxIter

\* ------------------------------------------------------- Python values
\* A str.  A formatted message keeps its template and the values that were
\* formatted into it: pct is the text written for the "{:.2%}" field ("" if
\* the template has none), n the "{}" field.
Text(t, pct, n) == [type |-> "str", text |-> t, pct |-> pct, n |-> n]
Str(t) == Text(t, "", 0)
NoneVal == [type |-> "NoneType", text |-> "None", pct |-> "", n |-> 0]
\* An exception instance: its class and its single argument.
Exc(type, arg) == [type |-> type, arg |-> arg]
NoExc == Exc("None", NoneVal)

Returned == [status |-> "returned", exc |-> NoExc]
Raised(e) == [status |-> "raised", exc |-> e]
Running == [status |-> "running", exc |-> NoExc]

FINISHED == Str("FINISHED")
CustomMsg == Str("custom message")
Msgs == {NoneVal, CustomMsg}

\* ------------------------------------------------------- Python floats
\* A float is an IEEE 754 double: a 53-bit significand m and an exponent e,
\* the value m * 2^e with 2^52 <= m < 2^53.  The significand is kept as
\* three limbs of 18 bits, least significant first, so that every
\* intermediate value stays a small integer.  The steps are functions: each
\* is applied to values already computed.
Base == 2^18
Doubles == [m : Seq(Nat), e : Int]
\* A quotient a / b, scaled; the limbs of an expansion and its remainder.
Scaled == [a : Nat, b : Nat, k : Int]
Expansions == [m : Seq(Nat), r : Nat]

\* a / b = (a2 / b2) * 2^k with b2 <= a2 < 2 * b2, for a, b > 0
Scale[a \in Nat, b \in Nat, k \in Int] ==
    IF a < b THEN Scale[2 * a, b, k - 1]
    ELSE IF a >= 2 * b THEN Scale[a, 2 * b, k + 1]
    ELSE [a |-> a, b |-> b, k |-> k]

\* Binary long division: q extended by the next n bits of the expansion of
\* r / b, for 0 <= r < b, and the remainder they leave; four bits a step.
DivBits[r \in Nat, b \in Nat, n \in Nat, q \in Nat] ==
    IF n = 0 THEN [q |-> q, r |-> r]
    ELSE IF n < 4 THEN DivBits[(r * 2^n) % b, b, 0, q * 2^n + (r * 2^n) \div b]
    ELSE DivBits[(r * 16) % b, b, n - 4, q * 16 + (r * 16) \div b]

\* The limbs of the expansion of r / b, of the given widths, the most
\* significant first in `widths` and last in the result.
Limbs[r \in Nat, b \in Nat, widths \in Seq(Nat), m \in Seq(Nat)] ==
    IF widths = <<>> THEN [m |-> m, r |-> r]
    ELSE Limbs[DivBits[r, b, Head(widths), 0].r, b, Tail(widths),
               <<DivBits[r, b, Head(widths), 0].q>> \o m]

\* significand + 1
Inc[m \in Seq(Nat)] ==
    IF m[1] + 1 < Base THEN <<m[1] + 1, m[2], m[3]>>
    ELSE IF m[2] + 1 < Base THEN <<0, m[2] + 1, m[3]>>
    ELSE <<0, 0, m[3] + 1>>

\* A significand rounded up to 2^53 is 2^52 with the next exponent.
Normal[m \in Seq(Nat), e \in Int] ==
    IF m[3] = 2^17 THEN [m |-> <<0, 0, 2^16>>, e |-> e + 1] ELSE [m |-> m, e |-> e]

\* The double nearest to (1 + l.m / 2^52 + l.r / (b * 2^52)) * 2^(e + 52),
\* ties to the even significand.
Nearest[l \in Expansions, b \in Nat, e \in Int] ==
    LET m == <<l.m[1], l.m[2], 2^16 + l.m[3]>>
    IN  Normal[IF 2 * l.r > b \/ (2 * l.r = b /\ l.m[1] % 2 = 1) THEN Inc[m] ELSE m, e]

Quotient[s \in Scaled] ==
    Nearest[Limbs[s.a - s.b, s.b, <<16, 18, 18>>, <<>>], s.b, s.k - 52]

\* float(a) / float(b) for integers a, b > 0
FloatDiv[a \in Nat, b \in Nat] == Quotient[Scale[a, b, 0]]

\* The exact product m * 100, in four limbs.
Mul100[m \in Seq(Nat)] ==
    LET t1 == m[1] * 100
        t2 == m[2] * 100 + t1 \div Base
        t3 == m[3] * 100 + t2 \div Base
    IN  <<t1 % Base, t2 % Base, t3 % Base, t3 \div Base>>

\* The double nearest to p * 2^e, ties to even, for p of 59 or 60 bits.
Shorten[p \in Seq(Nat), e \in Int] ==
    LET s == IF p[4] >= 32 THEN 7 ELSE 6
        d == 2^s
        n == <<p[1] \div d + (p[2] % d) * (Base \div d),
               p[2] \div d + (p[3] % d) * (Base \div d),
               p[3] \div d + p[4] * (Base \div d)>>
        dropped == p[1] % d
    IN  Normal[IF 2 * dropped > d \/ (2 * dropped = d /\ n[1] % 2 = 1)
                 THEN Inc[n] ELSE n, e + s]

\* x * 100.0
FloatMul100[x \in Doubles] == Shorten[Mul100[x.m], x.e]

\* q \div 2^f for a number of four limbs.
ShiftRight[q \in Seq(Nat), f \in Int] ==
    LET part(j) ==
            IF q[j] = 0 \/ f - 18 * (j - 1) >= 18 THEN 0
            ELSE IF 18 * (j - 1) >= f THEN q[j] * 2^(18 * (j - 1) - f)
            ELSE q[j] \div 2^(f - 18 * (j - 1))
    IN  part(1) + part(2) + part(3) + part(4)

\* Some of the g lowest bits of a number of four limbs is set.
LowBits[q \in Seq(Nat), g \in Int] ==
    \E j \in 1..4 :
        IF 18 * j <= g THEN q[j] # 0
        ELSE IF 18 * (j - 1) >= g THEN FALSE
        ELSE q[j] % 2^(g - 18 * (j - 1)) # 0

\* The integer nearest to q / 2^f (f > 0), ties to even: the rounding of
\* the "f" presentation type, which is exact on the binary value.
RoundHalfEven[q \in Seq(Nat), f \in Int] ==
    IF ShiftRight[q, f - 1] % 2 = 1 /\ (LowBits[q, f - 1] \/ ShiftRight[q, f] % 2 = 1)
      THEN ShiftRight[q, f] + 1
      ELSE ShiftRight[q, f]

\* y * 100 to the nearest integer: the digits "%.2f" writes for y
Digits[y \in Doubles] == RoundHalfEven[Mul100[y.m], -y.e]

TwoDigits(n) == IF n < 10 THEN "0" \o ToString(n) ELSE ToString(n)

PercentText[h \in Nat] == ToString(h \div 100) \o "." \o TwoDigits(h % 100) \o "%"

\* "{:.2%}".format(float(num) / float(den)), den > 0: the quotient is
\* multiplied by 100.0 and written with two decimals and a "%"; the sign
\* of a negative quotient is written even when the digits are all zero.
FormatPercent(num, den) ==
    (IF num < 0 THEN "-" ELSE "")
        \o PercentText[IF num = 0 THEN 0
                       ELSE Digits[FloatMul100[FloatDiv[IF num < 0 THEN -num ELSE num, den]]]]

\* --------------------------------------------------- inputs of the calls
\* The function under test: it returns normally on every call, or raises
\* an exception of class `type` on its call number `at` (at = 1: on every
\* call the check can make, since the first raise ends the loop).
FunctionError == Str("raised by the function under test")
Functions ==
    {[at |-> 0, type |-> "None"]} \cup
    {[at |-> k, type |-> t] : k \in 1..MaxIter, t \in {"AssertionError", "ValueError"}}

VARIABLES
    call,       \* the public operation in progress ("idle" before any)
    pc,         \* the position inside it
    args,       \* its arguments
    baseline,   \* assertReturnsMemory: the baseline sample (0: not taken)
    index,      \* assertReturnsMemory: the loop variable (-1: unbound)
    calls,      \* number of invocations of the function under test
    checks,     \* the samples compared to the hard limit, in order
    leak,       \* the sample taken in the except clause (0: none)
    nsamples,   \* number of _memory_usage reads made
    log,        \* the events of the call: gc, call, sample; poll, sleep
    result,     \* how the operation ended
    target,     \* the entry point of the child process ("none": no process)
    worker,     \* the child: unstarted, entry, put, hung, exited, killed
    queue,      \* the pipe of the multiprocessing queue: what the parent can read
    buffer,     \* the messages put in the child and not yet written to the pipe
    written,    \* every message the child has put, in order
    outcome,    \* _assertChildProcessFinishes: the message read
    pending,    \* the exception raised inside its try block, if any
    sigterm,    \* terminate() has signalled a child that was still alive
    terminated, \* process.terminate() has been called
    polled      \* assertProcessDoesNotExist: the results of process.poll()

inproc == <<baseline, index, calls, checks, leak, nsamples, log>>
child == <<target, worker, queue, buffer, written, outcome, pending, sigterm, terminated, polled>>

NoArgs == [usage |-> 0, slack |-> 0, msg |-> NoneVal, iterations |-> 0,
           function |-> [at |-> 0, type |-> "None"], pid |-> 0]

\* ------------------------------------------------------ assertMemoryUsage
\* hard_limit = usage * (1 + slack); hard_limit < current_usage
\* Mutants of the comparison: the limit itself counted as exceeded, and the
\* comparison turned around.
HardLimitExceededInclusive(usage, slack, current) ==
    usage * (SlackDen + slack) <= current * SlackDen

HardLimitExceededReversed(usage, slack, current) ==
    current * SlackDen < usage * (SlackDen + slack)

HardLimitExceeded(usage, slack, current) ==
    usage * (SlackDen + slack) < current * SlackDen

\* Mutant: the excess taken relative to the sample instead of the usage.
MemoryLeakMessageOverCurrent(current, usage) ==
    Raised(Exc("AssertionError",
               Text("Memory leak of {:.2%}",
                    FormatPercent(current - usage, current), 0)))

\* difference = (current_usage - usage) / usage: a float division, which
\* raises ZeroDivisionError when usage is 0.
MemoryLeakMessage(current, usage) ==
    IF usage = 0
      THEN Raised(Exc("ZeroDivisionError", Str("float division by zero")))
      ELSE Raised(Exc("AssertionError",
                      Text("Memory leak of {:.2%}",
                           FormatPercent(current - usage, usage), 0)))

\* The body of assertMemoryUsage after the sample `current` was taken.
MemoryUsageOutcome(current, usage, slack, msg) ==
    IF HardLimitExceeded(usage, slack, current)
      THEN IF msg = NoneVal
             THEN MemoryLeakMessage(current, usage)
             ELSE Raised(Exc("AssertionError", msg))
      ELSE Returned

\* assertMemoryUsage(process, usage, slack, msg), called by a test.
AssertMemoryUsage ==
    /\ UNCHANGED child
    /\ call = "idle"
    /\ \E usage \in Usages, slack \in Slacks, msg \in Msgs, current \in Samples :
         /\ args' = [NoArgs EXCEPT !.usage = usage, !.slack = slack, !.msg = msg]
         /\ checks' = <<current>>
         /\ nsamples' = 1
         /\ result' = MemoryUsageOutcome(current, usage, slack, msg)
    /\ log' = Append(log, "sample")
    /\ call' = "assertMemoryUsage"
    /\ pc' = "done"
    /\ UNCHANGED <<baseline, index, calls, leak>>

\* ---------------------------------------------------- assertReturnsMemory
BeginAssertReturnsMemory ==
    /\ UNCHANGED child
    /\ call = "idle"
    /\ \E slack \in Slacks, msg \in Msgs, n \in Iterations, f \in Functions :
         args' = [NoArgs EXCEPT !.slack = slack, !.msg = msg,
                                !.iterations = n, !.function = f]
    /\ call' = "assertReturnsMemory"
    /\ pc' = "collect0"
    /\ UNCHANGED <<inproc, result>>

\* line 81: gc.collect()
CollectBeforeBaseline ==
    /\ UNCHANGED child
    /\ call = "assertReturnsMemory" /\ pc = "collect0"
    /\ log' = Append(log, "gc")
    /\ pc' = "baseline"
    /\ UNCHANGED <<call, args, baseline, index, calls, checks, leak, nsamples, result>>

\* line 82: baseline = self._memory_usage(process)
TakeBaseline ==
    /\ UNCHANGED child
    /\ call = "assertReturnsMemory" /\ pc = "baseline"
    /\ \E s \in Samples : baseline' = s
    /\ nsamples' = nsamples + 1
    /\ log' = Append(log, "sample")
    /\ pc' = "loop"
    /\ UNCHANGED <<call, args, index, calls, checks, leak, result>>

\* line 85: for index in xrange(iterations)
LoopNext ==
    /\ UNCHANGED child
    /\ call = "assertReturnsMemory" /\ pc = "loop"
    /\ IF index + 1 < args.iterations
         THEN /\ index' = index + 1
              /\ pc' = "call"
              /\ UNCHANGED result
         ELSE /\ result' = Returned
              /\ pc' = "done"
              /\ UNCHANGED index
    /\ UNCHANGED <<call, args, baseline, calls, checks, leak, nsamples, log>>

\* Mutant: the AssertionError of the function is not caught either.
CallFunctionPropagatingAll ==
    /\ UNCHANGED child
    /\ call = "assertReturnsMemory" /\ pc = "call"
    /\ calls' = calls + 1
    /\ log' = Append(log, "call")
    /\ IF args.function.at = calls + 1
         THEN /\ result' = Raised(Exc(args.function.type, FunctionError))
              /\ pc' = "done"
         ELSE /\ pc' = "collect"
              /\ UNCHANGED result
    /\ UNCHANGED <<call, args, baseline, index, checks, leak, nsamples>>

\* line 86: test_function().  An AssertionError it raises is caught by the
\* except clause of line 89; any other exception leaves the method.
CallFunction ==
    /\ UNCHANGED child
    /\ call = "assertReturnsMemory" /\ pc = "call"
    /\ calls' = calls + 1
    /\ log' = Append(log, "call")
    /\ IF args.function.at = calls + 1
         THEN IF args.function.type = "AssertionError"
                THEN /\ pc' = "except"
                     /\ UNCHANGED result
                ELSE /\ result' = Raised(Exc(args.function.type, FunctionError))
                     /\ pc' = "done"
         ELSE /\ pc' = "collect"
              /\ UNCHANGED result
    /\ UNCHANGED <<call, args, baseline, index, checks, leak, nsamples>>

\* Mutant: the collection after the call left out.
CollectAfterCallOmitted ==
    /\ UNCHANGED child
    /\ call = "assertReturnsMemory" /\ pc = "collect"
    /\ pc' = "check"
    /\ UNCHANGED <<call, args, baseline, index, calls, checks, leak, nsamples, log, result>>

\* line 87: gc.collect()
CollectAfterCall ==
    /\ UNCHANGED child
    /\ call = "assertReturnsMemory" /\ pc = "collect"
    /\ log' = Append(log, "gc")
    /\ pc' = "check"
    /\ UNCHANGED <<call, args, baseline, index, calls, checks, leak, nsamples, result>>

\* Mutant: a sample that passes the check becomes the new baseline.
CheckUsageRebaselining ==
    /\ UNCHANGED child
    /\ call = "assertReturnsMemory" /\ pc = "check"
    /\ \E s \in Samples :
         LET r == MemoryUsageOutcome(s, baseline, args.slack, NoneVal)
         IN  /\ checks' = Append(checks, s)
             /\ IF r.status = "returned"
                  THEN pc' = "loop" /\ baseline' = s /\ UNCHANGED result
                  ELSE IF r.exc.type = "AssertionError"
                         THEN pc' = "except" /\ UNCHANGED <<baseline, result>>
                         ELSE pc' = "done" /\ result' = r /\ UNCHANGED baseline
    /\ nsamples' = nsamples + 1
    /\ log' = Append(log, "sample")
    /\ UNCHANGED <<call, args, index, calls, leak>>

\* line 88: self.assertMemoryUsage(process, baseline, slack=slack).  Only
\* an AssertionError is caught by line 89.
CheckUsage ==
    /\ UNCHANGED child
    /\ call = "assertReturnsMemory" /\ pc = "check"
    /\ \E s \in Samples :
         LET r == MemoryUsageOutcome(s, baseline, args.slack, NoneVal)
         IN  /\ checks' = Append(checks, s)
             /\ IF r.status = "returned"
                  THEN pc' = "loop" /\ UNCHANGED result
                  ELSE IF r.exc.type = "AssertionError"
                         THEN pc' = "except" /\ UNCHANGED result
                         ELSE pc' = "done" /\ result' = r
    /\ nsamples' = nsamples + 1
    /\ log' = Append(log, "sample")
    /\ UNCHANGED <<call, args, baseline, index, calls, leak>>

\* Mutant: the zero-based loop variable reported as it is.
ReportedIterationsZeroBased(i) == i

\* The number reported as "after {} iterations".
ReportedIterations(i) == i + 1

\* lines 89-95: the except clause, with `s` the sample of line 90.
LeakReport(s, base, msg, i) ==
    IF msg = NoneVal
      THEN Raised(Exc("AssertionError",
                      Text("Memory leak of {:.2%} after {} iterations",
                           FormatPercent(s - base, base), ReportedIterations(i))))
      ELSE Raised(Exc("AssertionError", msg))

\* Mutant: the excess reported from the sample that tripped the check.
ExceptAssertionErrorReusingSample ==
    /\ UNCHANGED child
    /\ call = "assertReturnsMemory" /\ pc = "except"
    /\ \E s \in Samples :
         /\ leak' = s
         /\ result' = LeakReport(IF checks # <<>> THEN checks[Len(checks)] ELSE baseline,
                                 baseline, args.msg, index)
    /\ nsamples' = nsamples + 1
    /\ log' = Append(log, "sample")
    /\ pc' = "done"
    /\ UNCHANGED <<call, args, baseline, index, calls, checks>>

ExceptAssertionError ==
    /\ UNCHANGED child
    /\ call = "assertReturnsMemory" /\ pc = "except"
    /\ \E s \in Samples :
         /\ leak' = s
         /\ result' = LeakReport(s, baseline, args.msg, index)
    /\ nsamples' = nsamples + 1
    /\ log' = Append(log, "sample")
    /\ pc' = "done"
    /\ UNCHANGED <<call, args, baseline, index, calls, checks>>

\* ------------------------------------------------------ the child process
\* Messages a child entry point other than _check_for_memory_leak may put.
ChildMessages ==
    {FINISHED, Str("finished"),
     Exc("AssertionError", Text("Memory leak of {:.2%} after {} iterations", "25.00%", 1)),
     Exc("ValueError", FunctionError)}

\* line 136: assistant.assertNoMemoryLeak(function, ...), on a plain
\* MemoryLeakAssistant.  The class (lines 13-130) defines no method of that
\* name, so the attribute lookup raises before `function` is ever called.
AssertNoMemoryLeak(function, iterations, slack) ==
    Raised(Exc("AttributeError",
               Str("'MemoryLeakAssistant' object has no attribute 'assertNoMemoryLeak'")))

\* lines 135-143: what _check_for_memory_leak puts on the queue.
CheckForMemoryLeakMessage(function, iterations, slack) ==
    LET r == AssertNoMemoryLeak(function, iterations, slack)
    IN  IF r.status = "raised" THEN r.exc ELSE FINISHED

\* Mutant: line 142's return left out, so the function falls through to
\* the put of line 143.
CheckForMemoryLeakPutsFallingThrough(function, iterations, slack) ==
    LET r == AssertNoMemoryLeak(function, iterations, slack)
    IN  IF r.status = "raised" THEN <<r.exc, FINISHED>> ELSE <<FINISHED>>

\* lines 135-143: the puts _check_for_memory_leak makes, in order.
CheckForMemoryLeakPuts(function, iterations, slack) ==
    <<CheckForMemoryLeakMessage(function, iterations, slack)>>

Alive(w) == w \in {"entry", "put", "hung"}

\* queue.put(obj) of a multiprocessing Queue appends obj to a buffer in the
\* calling process and returns; a feeder thread of that process writes the
\* buffered objects to the pipe, in order.  Only what has reached the pipe
\* can be read by the parent.

\* _check_for_memory_leak run as the child's entry point: its puts, then
\* the return of line 142 or the end of the function.
WorkerCheckForMemoryLeak ==
    /\ target = "_check_for_memory_leak" /\ worker = "entry"
    /\ LET puts == CheckForMemoryLeakPuts(args.function, args.iterations, args.slack)
       IN  buffer' = buffer \o puts /\ written' = written \o puts
    /\ worker' = "put"
    /\ UNCHANGED <<call, pc, args, inproc, result, target, queue, outcome, pending, sigterm, terminated, polled>>

\* The feeder thread of a live child writes the oldest buffered message to
\* the pipe.
FeederWrites ==
    /\ Alive(worker)
    /\ buffer # <<>>
    /\ queue' = Append(queue, Head(buffer))
    /\ buffer' = Tail(buffer)
    /\ UNCHANGED <<call, pc, args, inproc, result, target, worker, written, outcome, pending, sigterm, terminated, polled>>

\* The entry point has returned: the process exits, which first waits for
\* the feeder thread to have emptied the buffer.
WorkerReturn ==
    /\ worker = "put"
    /\ buffer = <<>>
    /\ worker' = "exited"
    /\ UNCHANGED <<call, pc, args, inproc, result, target, queue, buffer, written, outcome, pending, sigterm, terminated, polled>>

\* A process handed to _assertChildProcessFinishes by its caller runs any
\* callable: it may put messages and return.
WorkerCallablePut ==
    /\ target = "callable" /\ worker = "entry"
    /\ Len(written) < MaxPuts
    /\ \E m \in ChildMessages :
         buffer' = Append(buffer, m) /\ written' = Append(written, m)
    /\ UNCHANGED <<call, pc, args, inproc, result, target, worker, queue, outcome, pending, sigterm, terminated, polled>>

WorkerCallableReturn ==
    /\ target = "callable" /\ worker = "entry"
    /\ buffer = <<>>
    /\ worker' = "exited"
    /\ UNCHANGED <<call, pc, args, inproc, result, target, queue, buffer, written, outcome, pending, sigterm, terminated, polled>>

\* The callable never returns: it loops or blocks for ever.
WorkerCallableHangs ==
    /\ target = "callable" /\ worker = "entry"
    /\ worker' = "hung"
    /\ UNCHANGED <<call, pc, args, inproc, result, target, queue, buffer, written, outcome, pending, sigterm, terminated, polled>>

\* The operating system ends a live child: the out-of-memory killer, or the
\* SIGTERM of terminate() being delivered.  What its feeder thread had not
\* yet written to the pipe is lost with it.
WorkerKilled ==
    /\ Alive(worker)
    /\ worker' = "killed"
    /\ buffer' = <<>>
    /\ UNCHANGED <<call, pc, args, inproc, result, target, queue, written, outcome, pending, sigterm, terminated, polled>>

\* -------------------------------------------------------- assertDoesNotLeak
\* line 112: self._subprocess_runner().  MemoryLeakAssistant defines no such
\* method; it is a mixin, so the lookup raises AttributeError unless the
\* class it is mixed into provides the runner, which then returns the
\* module's entry point _check_for_memory_leak.
SubprocessRunnerLookup == {"AttributeError", "_check_for_memory_leak"}

NoSubprocessRunner ==
    Exc("AttributeError", Str("object has no attribute '_subprocess_runner'"))

\* lines 110-115
BeginAssertDoesNotLeak ==
    /\ call = "idle"
    /\ \E slack \in Slacks, n \in Iterations, f \in Functions :
         args' = [NoArgs EXCEPT !.slack = slack, !.iterations = n, !.function = f]
    /\ call' = "assertDoesNotLeak"
    /\ \E r \in SubprocessRunnerLookup :
         IF r = "AttributeError"
           THEN /\ result' = Raised(NoSubprocessRunner)
                /\ pc' = "done"
                /\ UNCHANGED target
           ELSE /\ target' = r
                /\ pc' = "start"
                /\ UNCHANGED result
    /\ UNCHANGED <<inproc, worker, queue, buffer, written, outcome, pending, sigterm, terminated, polled>>

\* _assertChildProcessFinishes(process, queue) called with a process of the
\* caller's own.
BeginAssertChildProcessFinishes ==
    /\ call = "idle"
    /\ call' = "_assertChildProcessFinishes"
    /\ \E t \in {"_check_for_memory_leak", "callable"} : target' = t
    /\ pc' = "start"
    /\ UNCHANGED <<args, inproc, result, worker, queue, buffer, written, outcome, pending, sigterm, terminated, polled>>

\* ----------------------------------------------- _assertChildProcessFinishes
\* line 122: process.start()
ProcessStart ==
    /\ pc = "start"
    /\ worker' = "entry"
    /\ pc' = "join"
    /\ UNCHANGED <<call, args, inproc, result, target, queue, buffer, written, outcome, pending, sigterm, terminated, polled>>

\* line 122, when the operating system cannot create the process.
ProcessStartFails ==
    /\ pc = "start"
    /\ pending' = Exc("OSError", Str("Cannot allocate memory"))
    /\ pc' = "finally"
    /\ UNCHANGED <<call, args, inproc, result, target, worker, queue, buffer, written, outcome, sigterm, terminated, polled>>

\* Mutant: a join that does not wait for the child.
JoinReturnsAtOnce(w) == TRUE

\* line 123: process.join() returns once the child has exited.
JoinReturns(w) == ~Alive(w)

ProcessJoin ==
    /\ pc = "join"
    /\ JoinReturns(worker)
    /\ pc' = "get"
    /\ UNCHANGED <<call, args, inproc, result, child>>

\* line 124: outcome = queue.get_nowait(), which raises Queue.Empty on an
\* empty queue.
QueueGetNowait ==
    /\ pc = "get"
    /\ IF queue = <<>>
         THEN /\ pending' = Exc("Empty", Str(""))
              /\ UNCHANGED <<queue, outcome>>
         ELSE /\ outcome' = Head(queue)
              /\ queue' = Tail(queue)
              /\ UNCHANGED pending
    /\ pc' = "finally"
    /\ UNCHANGED <<call, args, inproc, result, target, worker, buffer, written, sigterm, terminated, polled>>

\* Process.terminate() is self._popen.terminate(): _popen is None until
\* start() has succeeded.
NotStarted ==
    Exc("AttributeError", Str("'NoneType' object has no attribute 'terminate'"))

\* Mutant: a failure reported without the message that was read.
DecideGeneric(o) ==
    IF o # FINISHED
      THEN Raised(Exc("AssertionError", Str("the child process failed")))
      ELSE Returned

\* lines 129-130: if outcome != 'FINISHED': self.fail(outcome)
Decide(o) ==
    IF o # FINISHED THEN Raised(Exc("AssertionError", o)) ELSE Returned

\* lines 125-127: the finally clause, then the exception of the try block
\* if there is one.
FinallyTerminate ==
    /\ pc = "finally"
    /\ terminated' = TRUE
    /\ IF worker = "unstarted"
         THEN /\ result' = Raised(NotStarted)
              /\ pc' = "done"
              /\ UNCHANGED sigterm
         ELSE /\ sigterm' = Alive(worker)
              /\ IF pending # NoExc
                   THEN result' = Raised(pending) /\ pc' = "done"
                   ELSE pc' = "decide" /\ UNCHANGED result
    /\ UNCHANGED <<call, args, inproc, target, worker, queue, buffer, written, outcome, pending, polled>>

DecideOutcome ==
    /\ pc = "decide"
    /\ result' = Decide(outcome)
    /\ pc' = "done"
    /\ UNCHANGED <<call, args, inproc, child>>

\* ------------------------------------------------ assertProcessDoesNotExist
\* (src/erinyes/gui/application_test_assistant.py, lines 35-49)
\* An int, such as a pid or a return code.
IntVal(k) == [type |-> "int", text |-> "", pct |-> "", n |-> k]

\* What subprocess.Popen.poll() returns: None while the process runs, its
\* return code once it has exited.
PollResults == {NoneVal, IntVal(0), IntVal(1), IntVal(-15)}
Pids == {1, 2}

notpolling == <<baseline, index, calls, checks, leak, nsamples,
                target, worker, queue, buffer, written, outcome, pending, sigterm, terminated>>

\* lines 42-43: the default message
StillExistsMessage(msg, pid) ==
    IF msg = NoneVal THEN Text("Process \"{}\" still exists", "", pid) ELSE msg

BeginAssertProcessDoesNotExist ==
    /\ call = "idle"
    /\ \E msg \in Msgs, pid \in Pids :
         args' = [NoArgs EXCEPT !.msg = StillExistsMessage(msg, pid), !.pid = pid]
    /\ call' = "assertProcessDoesNotExist"
    /\ pc' = "poll"
    /\ UNCHANGED <<notpolling, log, polled, result>>

\* Mutant: `if not returncode`, which takes the return code 0 for None.
StillRunningFalsy(returncode) == returncode \in {NoneVal, IntVal(0)}

\* line 45: returncode is None
StillRunning(returncode) == returncode = NoneVal

\* line 44: returncode = process.poll()
PollFirst ==
    /\ call = "assertProcessDoesNotExist" /\ pc = "poll"
    /\ \E rc \in PollResults :
         /\ polled' = <<rc>>
         /\ pc' = IF StillRunning(rc) THEN "sleep" ELSE "assert"
    /\ log' = Append(log, "poll")
    /\ UNCHANGED <<call, args, notpolling, result>>

\* line 46: time.sleep(timeout)
SleepTimeout ==
    /\ call = "assertProcessDoesNotExist" /\ pc = "sleep"
    /\ log' = Append(log, "sleep")
    /\ pc' = "poll again"
    /\ UNCHANGED <<call, args, notpolling, polled, result>>

\* line 47: returncode = process.poll()
PollSecond ==
    /\ call = "assertProcessDoesNotExist" /\ pc = "poll again"
    /\ \E rc \in PollResults : polled' = Append(polled, rc)
    /\ log' = Append(log, "poll")
    /\ pc' = "assert"
    /\ UNCHANGED <<call, args, notpolling, result>>

\* line 49: self.assertIsNotNone(returncode, msg=msg)
AssertIsNotNone ==
    /\ call = "assertProcessDoesNotExist" /\ pc = "assert"
    /\ result' = IF polled[Len(polled)] = NoneVal
                   THEN Raised(Exc("AssertionError", args.msg))
                   ELSE Returned
    /\ pc' = "done"
    /\ UNCHANGED <<call, args, notpolling, log, polled>>

vars == <<call, pc, args, baseline, index, calls, checks, leak, nsamples, log, result,
          target, worker, queue, buffer, written, outcome, pending, sigterm, terminated, polled>>

Init ==
    /\ call = "idle"
    /\ pc = "idle"
    /\ args = NoArgs
    /\ baseline = 0
    /\ index = -1
    /\ calls = 0
    /\ checks = <<>>
    /\ leak = 0
    /\ nsamples = 0
    /\ log = <<>>
    /\ result = Running
    /\ target = "none"
    /\ worker = "unstarted"
    /\ queue = <<>>
    /\ buffer = <<>>
    /\ written = <<>>
    /\ outcome = NoneVal
    /\ pending = NoExc
    /\ sigterm = FALSE
    /\ terminated = FALSE
    /\ polled = <<>>

Next ==
    \/ AssertMemoryUsage
    \/ BeginAssertReturnsMemory
    \/ CollectBeforeBaseline
    \/ TakeBaseline
    \/ LoopNext
    \/ CallFunction
    \/ CollectAfterCall
    \/ CheckUsage
    \/ ExceptAssertionError
    \/ BeginAssertDoesNotLeak
    \/ BeginAssertChildProcessFinishes
    \/ ProcessStart
    \/ ProcessStartFails
    \/ ProcessJoin
    \/ QueueGetNowait
    \/ FinallyTerminate
    \/ DecideOutcome
    \/ WorkerCheckForMemoryLeak
    \/ FeederWrites
    \/ WorkerReturn
    \/ WorkerCallablePut
    \/ WorkerCallableReturn
    \/ WorkerCallableHangs
    \/ WorkerKilled
    \/ BeginAssertProcessDoesNotExist
    \/ PollFirst
    \/ SleepTimeout
    \/ PollSecond
    \/ AssertIsNotNone

Spec == Init /\ [][Next]_vars

\* The steps the program takes by itself.  A process that can run does run,
\* in the parent as in the child; nothing obliges the operating system to
\* kill a child.
Progress ==
    \/ CollectBeforeBaseline \/ TakeBaseline \/ LoopNext \/ CallFunction
    \/ CollectAfterCall \/ CheckUsage \/ ExceptAssertionError
    \/ ProcessStart \/ ProcessJoin \/ QueueGetNowait \/ FinallyTerminate
    \/ DecideOutcome
    \/ WorkerCheckForMemoryLeak \/ FeederWrites \/ WorkerReturn
    \/ WorkerCallablePut \/ WorkerCallableReturn \/ WorkerCallableHangs
    \/ PollFirst \/ SleepTimeout \/ PollSecond \/ AssertIsNotNone

FairSpec == Spec /\ WF_vars(Progress)

\* ------------------------------------------------------------ properties
Done(c) == call = c /\ pc = "done"
Isolated == call \in {"assertDoesNotLeak", "_assertChildProcessFinishes"}
Failed(type) == result.status = "raised" /\ result.exc.type = type
NeverRaises(f, n) == f.at \notin 1..n

\* sample > base * (1 + slack / SlackDen), over the integers
Exceeds(sample, base, slack) == sample * SlackDen > base * (SlackDen + slack)

\* The 1-based indices of the check samples that exceed the hard limit.
Violations == {i \in 1..Len(checks) : Exceeds(checks[i], baseline, args.slack)}
FirstViolation == CHOOSE i \in Violations : \A j \in Violations : i <= j

StrictlyIncreasing(q) == \A i \in 1..(Len(q) - 1) : q[i] < q[i + 1]

\* C1: assertMemoryUsage returns normally when the sample is at most
\* usage * (1 + slack), and fails with an AssertionError when the sample is
\* above it, for every usage and every slack >= 0.
C1_PassesWithinLimitFailsAbove ==
    Done("assertMemoryUsage") =>
        /\ ~Exceeds(checks[1], args.usage, args.slack) => result = Returned
        /\ Exceeds(checks[1], args.usage, args.slack) => Failed("AssertionError")

\* The same statement for a usage above zero, which is where it holds.
AssertMemoryUsagePositiveUsage ==
    (Done("assertMemoryUsage") /\ args.usage > 0) =>
        /\ ~Exceeds(checks[1], args.usage, args.slack) => result = Returned
        /\ Exceeds(checks[1], args.usage, args.slack) => Failed("AssertionError")

\* C2: assertMemoryUsage takes exactly one sample, and the excess it reports
\* when it fails with its own message is (sample - usage) / usage for that
\* very sample.
C2_OneSampleAndItsExcess ==
    Done("assertMemoryUsage") =>
        /\ nsamples = 1
        /\ Len(checks) = 1
        /\ (Failed("AssertionError") /\ args.msg = NoneVal) =>
              /\ Exceeds(checks[1], args.usage, args.slack)
              /\ args.usage # 0
              /\ result.exc.arg.text = "Memory leak of {:.2%}"
              /\ result.exc.arg.pct = FormatPercent(checks[1] - args.usage, args.usage)

C2_Witness ==
    /\ Done("assertMemoryUsage")
    /\ args.usage = 2 /\ args.slack = 1 /\ args.msg = NoneVal
    /\ checks = <<3>>
    /\ Failed("AssertionError")
    /\ result.exc.arg.pct = "50.00%"

\* C3: assertReturnsMemory with iterations >= 1, on a function that raises
\* nothing and after which every check sample is at most the baseline,
\* returns normally after exactly `iterations` invocations.
C3_PassesWhenMemoryReturns ==
    ( /\ Done("assertReturnsMemory")
      /\ args.iterations >= 1
      /\ NeverRaises(args.function, args.iterations)
      /\ \A i \in 1..Len(checks) : checks[i] <= baseline ) =>
        /\ result = Returned
        /\ calls = args.iterations
        /\ Len(checks) = args.iterations

C3_Witness ==
    /\ Done("assertReturnsMemory")
    /\ args.iterations = 3 /\ args.slack = 0
    /\ args.function.at = 0
    /\ baseline = 2
    /\ checks = <<2, 1, 2>>
    /\ calls = 3
    /\ result = Returned

\* C4: assertReturnsMemory with slack 0 and iterations >= 1, on a function
\* that raises nothing and after which every sample is above the one
\* before, fails, and the iteration count it reports is in 1..iterations.
C4_LeakIsReportedWithinIterations ==
    ( /\ Done("assertReturnsMemory")
      /\ args.iterations >= 1
      /\ args.slack = 0
      /\ NeverRaises(args.function, args.iterations)
      /\ StrictlyIncreasing(<<baseline>> \o checks) ) =>
        /\ Failed("AssertionError")
        /\ args.msg = NoneVal => result.exc.arg.n \in 1..args.iterations

C4_Witness ==
    /\ Done("assertReturnsMemory")
    /\ args.iterations = 3 /\ args.slack = 0 /\ args.msg = NoneVal
    /\ args.function.at = 0
    /\ baseline = 1
    /\ checks = <<2>>
    /\ Failed("AssertionError")
    /\ result.exc.arg.n = 1

\* C5: once a check sample of assertReturnsMemory has exceeded
\* baseline * (1 + slack), the function is not invoked again: the number of
\* invocations stays the index of that first violating iteration, no later
\* check is made, and that index is the iteration count reported.
C5_AbortsAtFirstViolation ==
    (call = "assertReturnsMemory" /\ Violations # {}) =>
        /\ calls = FirstViolation
        /\ Len(checks) = FirstViolation
        /\ pc \in {"except", "done"}
        /\ pc = "done" =>
              /\ Failed("AssertionError")
              /\ args.msg = NoneVal => result.exc.arg.n = FirstViolation

C5_Witness ==
    /\ Done("assertReturnsMemory")
    /\ args.iterations = 3 /\ args.slack = 2 /\ args.msg = NoneVal
    /\ baseline = 2
    /\ checks = <<3, 4>>
    /\ calls = 2
    /\ Failed("AssertionError")
    /\ result.exc.arg.n = 2

\* C6: when assertDoesNotLeak has returned or failed, the child process it
\* spawned is not running.
C6_ChildNotRunningAfterReturn ==
    Done("assertDoesNotLeak") => ~Alive(worker)

C6_Witness ==
    /\ Done("assertDoesNotLeak")
    /\ worker = "exited"
    /\ written # <<>>

\* The call met no failure of the operating system: the child was not
\* killed and the try block of _assertChildProcessFinishes raised nothing.
Undisturbed == worker # "killed" /\ pending = NoExc

\* C7: assertDoesNotLeak on a function that raises nothing (and whose
\* samples stay within the limit) has the child put 'FINISHED' and returns
\* normally.
C7_CleanFunctionFinishes ==
    ( /\ Done("assertDoesNotLeak")
      /\ NeverRaises(args.function, args.iterations)
      /\ Undisturbed ) =>
        /\ written = <<FINISHED>>
        /\ result = Returned

\* C8: in _assertChildProcessFinishes the check succeeds exactly when the
\* message read from the queue is 'FINISHED'; any other message read makes
\* it fail with that message, which is the first one the child wrote.
C8_OutcomeDecidesTheCheck ==
    (Isolated /\ pc = "done") =>
        /\ result = Returned <=> outcome = FINISHED
        /\ outcome \notin {NoneVal, FINISHED} =>
              /\ outcome = written[1]
              /\ result = Raised(Exc("AssertionError", outcome))

C8_Witness ==
    /\ Done("_assertChildProcessFinishes")
    /\ written = <<Exc("ValueError", FunctionError)>>
    /\ outcome = Exc("ValueError", FunctionError)
    /\ result = Raised(Exc("AssertionError", Exc("ValueError", FunctionError)))

\* C9: when the child has exited without writing a message, the check fails
\* as a check failure (an AssertionError from self.fail), not with an error
\* of the queue.
C9_CrashIsACheckFailure ==
    (Isolated /\ pc = "done" /\ worker \in {"exited", "killed"} /\ written = <<>>) =>
        Failed("AssertionError")

\* C10: assertDoesNotLeak on a function that raises an exception other than
\* a leak violation on every call fails with that exception, caught in the
\* child and written to the queue, as the failure message.
C10_FunctionErrorIsSurfaced ==
    ( /\ Done("assertDoesNotLeak")
      /\ args.iterations >= 1
      /\ args.function.at = 1 /\ args.function.type = "ValueError"
      /\ Undisturbed ) =>
        /\ written = <<Exc("ValueError", FunctionError)>>
        /\ result = Raised(Exc("AssertionError", Exc("ValueError", FunctionError)))

\* C11: every isolated check reaches the terminate() of its finally clause
\* and returns to its caller, whatever the child does: finish, fail, crash
\* without a message, or hang.
C11_IsolatedCheckReturns ==
    Isolated ~> (pc = "done" /\ (target # "none" => terminated))

\* The same, but for the child that hangs: the one behaviour that keeps the
\* check from returning.
IsolatedCheckReturnsUnlessHung ==
    Isolated ~> ((pc = "done" /\ (target # "none" => terminated)) \/ worker = "hung")

\* C12: _assertChildProcessFinishes calls process.terminate() on every exit
\* path, and when its try block raised (start, join or the queue read) the
\* caller receives that exception.
C12_CleanupKeepsTheFailure ==
    (Isolated /\ pc = "done" /\ target # "none") =>
        /\ terminated
        /\ pending # NoExc => result = Raised(pending)

\* terminate() is called on every exit path: the part of C12 that holds.
TerminateOnEveryExitPath ==
    (Isolated /\ pc = "done" /\ target # "none") => terminated

\* C13: a violation detected by assertMemoryUsage or assertReturnsMemory is
\* always delivered as an AssertionError, with the "Memory leak of X%"
\* message when the caller gave none, for every usage or baseline >= 0 and
\* slack >= 0.
C13_ViolationIsAnAssertionError ==
    ( /\ call \in {"assertMemoryUsage", "assertReturnsMemory"}
      /\ pc = "done"
      /\ checks # <<>>
      /\ Exceeds(checks[Len(checks)],
                 IF call = "assertMemoryUsage" THEN args.usage ELSE baseline,
                 args.slack) ) =>
        /\ Failed("AssertionError")
        /\ args.msg = NoneVal =>
              result.exc.arg.text \in {"Memory leak of {:.2%}",
                                       "Memory leak of {:.2%} after {} iterations"}

\* C14: _check_for_memory_leak, on every path where it returns, has written
\* to the queue exactly once: the caught exception when the check raised,
\* 'FINISHED' when it raised nothing, never both.
C14_WorkerWritesExactlyOnce ==
    (target = "_check_for_memory_leak") =>
        /\ Len(written) <= 1
        /\ worker = "exited" =>
              LET r == AssertNoMemoryLeak(args.function, args.iterations, args.slack)
              IN  /\ Len(written) = 1
                  /\ r.status = "raised" => written[1] = r.exc
                  /\ r.status # "raised" => written[1] = FINISHED

C14_Witness ==
    /\ target = "_check_for_memory_leak"
    /\ worker = "exited"
    /\ Len(written) = 1
    /\ written[1].type = "AttributeError"

\* C15: the parent reads the queue only when the child has exited, and the
\* child writes nothing once join() has returned: every write precedes the
\* read, and no message is on its way to the pipe at the read or after it.
C15_ReadOnlyAfterExit ==
    [][ /\ pc = "get" => (~Alive(worker) /\ buffer = <<>>)
        /\ (Isolated /\ pc \in {"get", "finally", "decide", "done"}) =>
              (written' = written /\ buffer' = buffer) ]_vars

C15_Witness ==
    /\ Isolated
    /\ pc = "finally"
    /\ worker = "exited"
    /\ written # <<>>
    /\ outcome = written[1]

\* The function under test raised in this run: its call number `at` was made.
FunctionRaised == args.function.at # 0 /\ calls = args.function.at

\* The excess "{:.2%}" of sample s over the baseline, as the message shows it.
ExcessOverBaseline(s) == FormatPercent(s - baseline, baseline)

\* C16: in assertReturnsMemory the baseline is sampled once, before the
\* first invocation of the function, and never changes afterwards, nor does
\* the slack: each check is decided against that baseline and the excess of
\* the failure message is computed from it.
C16_BaselineIsFixed ==
    [][ call = "assertReturnsMemory" =>
          /\ baseline # 0 => baseline' = baseline
          /\ args' = args
          /\ baseline = 0 => (calls = 0 /\ checks = <<>>)
          /\ pc = "check" =>
                (pc' = "except" <=> Exceeds(checks'[Len(checks')], baseline, args.slack))
          /\ (pc = "except" /\ args.msg = NoneVal) =>
                result'.exc.arg.pct = ExcessOverBaseline(leak') ]_vars

C16_Witness ==
    /\ Done("assertReturnsMemory")
    /\ args.slack = 2 /\ args.msg = NoneVal
    /\ baseline = 2
    /\ checks = <<3, 1, 4>>
    /\ leak = 3
    /\ result.exc.arg.pct = "50.00%"

\* The log entry i is a sample that is compared to the hard limit or is the
\* baseline: any sample but the one of the except clause.
ComparedSample(i) == log[i] = "sample" /\ ~(leak # 0 /\ i = Len(log))

\* C17: in assertReturnsMemory the baseline sample and every check sample
\* directly follow a garbage collection, and every collection but the first
\* directly follows an invocation of the function: call, collect, check.
C17_SamplesFollowCollection ==
    call = "assertReturnsMemory" =>
        \A i \in 1..Len(log) :
            /\ ComparedSample(i) => (i > 1 /\ log[i - 1] = "gc")
            /\ log[i] = "gc" => (i = 1 \/ log[i - 1] = "call")
            /\ (log[i] = "gc" /\ i < Len(log)) => log[i + 1] = "sample"
            /\ (log[i] = "call" /\ i < Len(log) /\ ~(FunctionRaised /\ i + 1 = Len(log)))
                  => log[i + 1] = "gc"

C17_Witness ==
    /\ Done("assertReturnsMemory")
    /\ log = <<"gc", "sample", "call", "gc", "sample", "call", "gc", "sample", "sample">>

\* C18 as stated: the excess of the failure message comes from the sample
\* taken in the except clause, and the call fails exactly when some check
\* sample exceeded baseline * (1 + slack).
C18_FailsExactlyOnViolation ==
    Done("assertReturnsMemory") =>
        /\ (Failed("AssertionError") /\ args.msg = NoneVal) =>
              (leak # 0 /\ result.exc.arg.pct = ExcessOverBaseline(leak))
        /\ result.status = "raised" <=> Violations # {}

\* C18, amended: the excess of the failure message comes from the sample
\* taken in the except clause, not from the one that tripped the check, and
\* in a run in which the function raises nothing the call fails exactly
\* when some check sample exceeded baseline * (1 + slack), whatever that
\* later sample is.
C18_FailsExactlyOnViolationUnlessRaised ==
    Done("assertReturnsMemory") =>
        /\ (Failed("AssertionError") /\ args.msg = NoneVal) =>
              (leak # 0 /\ result.exc.arg.pct = ExcessOverBaseline(leak))
        /\ ~FunctionRaised => (result.status = "raised" <=> Violations # {})

C18_Witness ==
    /\ Done("assertReturnsMemory")
    /\ ~FunctionRaised
    /\ args.slack = 0 /\ args.msg = NoneVal
    /\ baseline = 2
    /\ checks = <<3>>
    /\ leak = 1
    /\ Failed("AssertionError")
    /\ result.exc.arg.pct = "-50.00%"

\* C19: an AssertionError raised by the function under test is caught like
\* a leak violation: the call fails with the "after N iterations" message,
\* N the invocations made, though no check sample exceeded the limit; any
\* other exception of the function reaches the caller unchanged.
C19_FunctionAssertionIsReportedAsLeak ==
    (Done("assertReturnsMemory") /\ FunctionRaised) =>
        /\ Violations = {}
        /\ args.function.type = "AssertionError" =>
              /\ Failed("AssertionError")
              /\ args.msg = NoneVal =>
                    /\ result.exc.arg.text = "Memory leak of {:.2%} after {} iterations"
                    /\ result.exc.arg.n = calls
                    /\ result.exc.arg.pct = ExcessOverBaseline(leak)
              /\ args.msg # NoneVal => result = Raised(Exc("AssertionError", args.msg))
        /\ args.function.type # "AssertionError" =>
              /\ result = Raised(Exc(args.function.type, FunctionError))
              /\ leak = 0

C19_Witness ==
    /\ Done("assertReturnsMemory")
    /\ args.function = [at |-> 2, type |-> "AssertionError"]
    /\ args.msg = NoneVal
    /\ baseline = 1
    /\ checks = <<1>>
    /\ calls = 2
    /\ leak = 2
    /\ result.exc.arg.n = 2
    /\ result.exc.arg.pct = "100.00%"

\* C20: assertProcessDoesNotExist polls at most twice.  When the first poll
\* gives a return code it passes with no wait and no second poll; otherwise
\* it sleeps once and polls once more; it fails exactly when both polls
\* gave None.
C20_PollsAtMostTwice ==
    call = "assertProcessDoesNotExist" =>
        /\ Len(polled) <= 2
        /\ pc = "done" =>
              /\ polled[1] # NoneVal => (log = <<"poll">> /\ result = Returned)
              /\ polled[1] = NoneVal => (log = <<"poll", "sleep", "poll">> /\ Len(polled) = 2)
              /\ Failed("AssertionError") <=> (polled = <<NoneVal, NoneVal>>)
              /\ result.status = "raised" => result = Raised(Exc("AssertionError", args.msg))

C20_Witness ==
    /\ Done("assertProcessDoesNotExist")
    /\ polled = <<NoneVal, IntVal(0)>>
    /\ log = <<"poll", "sleep", "poll">>
    /\ result = Returned

====
